---- MODULE Spec2Model ----
(***************************************************************************)
(* Model of the WalletConnect v2 connector                                 *)
(* (packages/walletconnect-v2/src/index.ts).                               *)
(*                                                                         *)
(* One connector instance is shared by a few callers.  Every public        *)
(* method is an async function: it runs synchronously up to its next       *)
(* `await`, and each continuation is one atomic step (JavaScript is        *)
(* single-threaded, so steps never overlap, but steps of different calls   *)
(* interleave at the awaits).                                              *)
(***************************************************************************)
EXTENDS Integers, Sequences, FiniteSets, TLC

\* ------------------------------------------------------------------ bounds
\* Number of connectEagerly() and activate() calls one behaviour may make
\* (each starts at most one construction); deactivate() calls are not counted.
MaxCalls == 2
\* The longest chain list of the options, and the largest chain id in them.
MaxLen == 2
\* The largest chain id a chainChanged event carries.
MaxChainId == 17
\* The most candidate URLs the rpcMap gives for one chain.
MaxUrls == 3
\* The most disconnect events of one behaviour.
MaxErrors == 2

\* `undefined` for an optional number (desiredChainId?, defaultChainId?).
Undef == -1
\* No construction / no provider (an `undefined` object reference).
None == 0

\* The calls that may be in progress at once; a new call takes the first
\* free slot (the slots are interchangeable).
Callers == {1, 2}
ConstrIds == 1..MaxCalls
\* Arguments a caller may pass to activate(desiredChainId?): none, a chain
\* that is second in a configured list, and one that is optional or unknown.
DesiredIds == {Undef, 2, 3}

\* The four listeners of handleProviderEvents.
Listeners == {"disconnect", "chainChanged", "accountsChanged", "display_uri"}

\* The constructor arguments a connector may be built with: options.chains,
\* options.optionalChains (absent = empty), defaultChainId, and whether an
\* rpcMap is given.
Configs ==
    { [chains |-> <<1, 2>>, optionalChains |-> <<3>>, default |-> Undef,
       rpcMap |-> TRUE],
      [chains |-> <<1, 2>>, optionalChains |-> <<>>, default |-> 2,
       rpcMap |-> FALSE],
      [chains |-> <<>>, optionalChains |-> <<3, 2>>, default |-> 2,
       rpcMap |-> FALSE],
      [chains |-> <<>>, optionalChains |-> <<>>, default |-> Undef,
       rpcMap |-> TRUE] }

\* Sessions the external Provider may establish or restore: the current
\* chain and the set of chains the session's eip155 accounts are namespaced
\* to.  (A chain switch then moves the current chain.)
SessionChoices ==
    { [chainId |-> 1, chains |-> {1}], [chainId |-> 1, chains |-> {1, 2}] }
NoSession == [chainId |-> 0, chains |-> {}]

VARIABLES
    chains,          \* options.chains
    optionalChains,  \* options.optionalChains
    defaultChainId,  \* this.defaultChainId
    hasRpcMap,       \* whether this.rpcMap is set
    eagerConnection, \* this.eagerConnection: the memoized construction
    provider,        \* this.provider
    constr,          \* every construction started so far, and its Provider
    nStarted,        \* how many constructions were started
    nCalls,          \* how many calls were made
    actions,         \* the Actions collaborator
    pc,              \* where each caller's current call is suspended
    arg,             \* desiredChainId of the caller's activate call
    local,           \* the promise / Provider the caller's call holds
    err,             \* the error the call caught and will rethrow
    result,          \* outcome of the caller's last finished call
    trace,           \* what the caller's current (or last) call did, in order
    firstArg,        \* per construction: the argument of the call that began it
    onErrors,        \* how many times the onError callback was invoked
    fn, inp, outp,   \* a function applied on its own: which, its input, its result
    cands,           \* getBestUrlMap: per chain, the number of candidate URLs
    probe,           \* getBestUrlMap: per chain and candidate, the probe's state
    timedOut,        \* getBestUrlMap: per chain, whether the timeout has passed
    selected         \* getBestUrlMap: per chain, the URL selected (0: none yet)

vars == <<chains, optionalChains, defaultChainId, hasRpcMap, eagerConnection,
          provider, constr, nStarted, nCalls, actions, pc, arg, local, err,
          result, trace, firstArg, onErrors, fn, inp, outp, cands, probe,
          timedOut, selected>>

\* What the connector's methods never touch: the functions applied on their
\* own and the endpoint selection in progress.
pureVars == <<fn, inp, outp>>
urlVars == <<cands, probe, timedOut, selected>>
aux == <<pureVars, urlVars, onErrors>>

config == <<chains, optionalChains, defaultChainId, hasRpcMap>>

\* ------------------------------------------------------- pure functions

\* Array.prototype.includes
Includes(s, x) == \E i \in 1..Len(s) : s[i] = x

\* utils.isArrayOneOrMore: the array has at least one item.
isArrayOneOrMore(s) == Len(s) > 0

\* The items of s other than x, in their order.
RECURSIVE Without(_, _)
Without(s, x) ==
    IF s = <<>> THEN <<>>
    ELSE IF Head(s) = x THEN Without(Tail(s), x)
    ELSE <<Head(s)>> \o Without(Tail(s), x)

\* utils.getChainsWithDefault: the default chain first, then the others.
getChainsWithDefault(s, d) == <<d>> \o Without(s, d)

\* reorderChainsBasedOnId; !desiredChainId is true of undefined and of 0.
reorderChainsBasedOnId(s, d) ==
    IF d = Undef \/ d = 0 \/ ~Includes(s, d) \/ Len(s) = 0 THEN s
    ELSE getChainsWithDefault(s, d)

\* A default parameter value applies to undefined only.
OrDefault(d) == IF d = Undef THEN defaultChainId ELSE d

getChainProps_Swaps(d) ==
    LET orderedChains == reorderChainsBasedOnId(chains, OrDefault(d))
        orderedOptionalChains ==
            reorderChainsBasedOnId(optionalChains, OrDefault(d))
    IN  IF isArrayOneOrMore(orderedChains)
        THEN [ok |-> TRUE, chains |-> orderedChains,
              optionalChains |-> orderedOptionalChains]
        ELSE IF isArrayOneOrMore(orderedOptionalChains)
        THEN [ok |-> TRUE, chains |-> orderedOptionalChains,
              optionalChains |-> orderedChains]
        ELSE [ok |-> FALSE, chains |-> <<>>, optionalChains |-> <<>>]

\* getChainProps: the chain props passed to init, or a thrown Error.
getChainProps(d) ==
    LET orderedChains == reorderChainsBasedOnId(chains, OrDefault(d))
        orderedOptionalChains ==
            reorderChainsBasedOnId(optionalChains, OrDefault(d))
    IN  IF isArrayOneOrMore(orderedChains)
        THEN [ok |-> TRUE, chains |-> orderedChains,
              optionalChains |-> orderedOptionalChains]
        ELSE IF isArrayOneOrMore(orderedOptionalChains)
        THEN [ok |-> TRUE, chains |-> orderedChains,
              optionalChains |-> orderedOptionalChains]
        ELSE [ok |-> FALSE, chains |-> <<>>, optionalChains |-> <<>>]

\* Number.prototype.toString(16): the hexadecimal digits of n.
RECURSIVE ToString16(_)
ToString16(n) ==
    IF n < 16 THEN <<n>> ELSE ToString16(n \div 16) \o <<n % 16>>

\* Number.prototype.toString(10): the decimal digits of n.
RECURSIVE ToString10(_)
ToString10(n) ==
    IF n < 10 THEN <<n>> ELSE ToString10(n \div 10) \o <<n % 10>>

\* The string a provider sends with chainChanged for chain n: "0x" and the
\* hexadecimal digits, or the decimal digits.
Payload(n, hex) ==
    IF hex THEN [prefix |-> TRUE, digits |-> ToString16(n)]
    ELSE [prefix |-> FALSE, digits |-> ToString10(n)]

\* The number a sequence of digits writes in the radix.
RECURSIVE DigitsValue(_, _)
DigitsValue(s, radix) ==
    IF s = <<>> THEN 0
    ELSE radix * DigitsValue(SubSeq(s, 1, Len(s) - 1), radix) + s[Len(s)]

\* The longest prefix of s made of digits of the radix.
RECURSIVE LeadingDigits(_, _)
LeadingDigits(s, radix) ==
    IF s = <<>> \/ Head(s) >= radix THEN <<>>
    ELSE <<Head(s)>> \o LeadingDigits(Tail(s), radix)

\* Number.parseInt(string, radix): a leading "0x" is skipped for radix 16
\* only (for any other radix parsing stops at the "x", after the "0"); then
\* the leading digits of the radix are read.
ParseInt(s, radix) ==
    IF s.prefix /\ radix # 16 THEN 0
    ELSE DigitsValue(LeadingDigits(s.digits, radix), radix)

\* ------------------------------------------------------------- Actions

IdleState == [status |-> "Idle", chainId |-> 0, src |-> None]

\* Actions.startActivation()
startActivation(a) == [a EXCEPT !.status = "Activating"]

\* The cancel function startActivation() returned.
cancelActivation(a) ==
    IF a.status = "Activating" THEN [a EXCEPT !.status = "Idle"] ELSE a

\* Actions.update({accounts, chainId}) with the values read from Provider c.
update(a, c) ==
    [status |-> "Activated", chainId |-> constr[c].session.chainId, src |-> c]

\* Actions.update({chainId}): the chain id alone is replaced.
updateChainId(a, n) == [a EXCEPT !.chainId = n]

\* Actions.resetState()
resetState(a) == IdleState

\* -------------------------------------------------------------- state

Ev(op) == [op |-> op, arg |-> <<>>]
EvArg(op, x) == [op |-> op, arg |-> x]

NoProps == [ok |-> FALSE, chains |-> <<>>, optionalChains |-> <<>>]

Unused ==
    [status |-> "unused", desired |-> Undef, props |-> NoProps,
     error |-> "none", probed |-> FALSE, listeners |-> {},
     hasSession |-> FALSE, session |-> NoSession, disconnected |-> FALSE]

NoInput == [d |-> Undef, n |-> 0, hex |-> FALSE, error |-> FALSE]

\* A connector just constructed, whatever its configuration.
Fresh ==
    /\ eagerConnection = None
    /\ provider = None
    /\ constr = [c \in ConstrIds |-> Unused]
    /\ nStarted = 0
    /\ nCalls = 0
    /\ actions = IdleState
    /\ pc = [p \in Callers |-> "idle"]
    /\ arg = [p \in Callers |-> Undef]
    /\ local = [p \in Callers |-> None]
    /\ err = [p \in Callers |-> "none"]
    /\ result = [p \in Callers |-> "none"]
    /\ trace = [p \in Callers |-> <<>>]
    /\ firstArg = [c \in ConstrIds |-> Undef]
    /\ onErrors = 0

\* No function applied on its own.
NoPure == fn = "none" /\ inp = NoInput /\ outp = NoProps

\* No endpoint selection.
NoUrls == cands = <<>> /\ probe = <<>> /\ timedOut = <<>> /\ selected = <<>>

Init ==
    /\ \E cf \in Configs :
         /\ chains = cf.chains
         /\ optionalChains = cf.optionalChains
         /\ defaultChainId = cf.default
         /\ hasRpcMap = cf.rpcMap
    /\ Fresh
    /\ NoPure
    /\ NoUrls

\* ------------------------------------------------ Provider construction

\* What a step of the environment or of one call leaves alone.
callerVars == <<pc, arg, local, err, result, trace>>
counters == <<nStarted, nCalls, firstArg>>

\* initializeProvider up to its first await (the dynamic import).
initializeProvider(d) ==
    [Unused EXCEPT !.status = "import", !.desired = OrDefault(d)]

\* handleProviderEvents: the four listeners are registered on the Provider.
handleProviderEvents(r) == [r EXCEPT !.listeners = Listeners]

\* The argument of init is evaluated: getChainProps throws, or init starts.
CallInit(r) ==
    LET props == getChainProps(r.desired)
    IN  IF props.ok THEN [r EXCEPT !.status = "init", !.props = props]
        ELSE [r EXCEPT !.status = "rejected", !.error = "ConfigError"]

\* The import resolved: getBestUrlMap is called when an rpcMap is configured.
ImportDone(c) ==
    /\ constr[c].status = "import"
    /\ constr' = [constr EXCEPT ![c] =
                    IF hasRpcMap
                    THEN [@ EXCEPT !.status = "probing", !.probed = TRUE]
                    ELSE CallInit(@)]
    /\ UNCHANGED <<config, aux, eagerConnection, provider, actions, callerVars,
                   counters>>

\* getBestUrlMap resolved.
ProbeDone(c) ==
    /\ constr[c].status = "probing"
    /\ constr' = [constr EXCEPT ![c] = CallInit(@)]
    /\ UNCHANGED <<config, aux, eagerConnection, provider, actions, callerVars,
                   counters>>

\* init resolved with a Provider, which may have restored a session.
InitResolved(c) ==
    /\ constr[c].status = "init"
    /\ \E s \in SessionChoices \cup {NoSession} :
         constr' = [constr EXCEPT ![c] =
                      handleProviderEvents(
                        [@ EXCEPT !.status = "resolved",
                                  !.hasSession = (s # NoSession),
                                  !.session = s])]
    /\ UNCHANGED <<config, aux, eagerConnection, provider, actions, callerVars,
                   counters>>

\* init rejected.
InitRejected(c) ==
    /\ constr[c].status = "init"
    /\ constr' = [constr EXCEPT ![c].status = "rejected",
                                ![c].error = "InitError"]
    /\ UNCHANGED <<config, aux, eagerConnection, provider, actions, callerVars,
                   counters>>

\* isomorphicInitialize without its memo check: every call constructs anew.
isomorphicInitialize_NoMemo(p, d) ==
    /\ nStarted' = nStarted + 1
    /\ constr' = [constr EXCEPT ![nStarted + 1] = initializeProvider(d)]
    /\ eagerConnection' = nStarted + 1
    /\ local' = [local EXCEPT ![p] = nStarted + 1]

\* isomorphicInitialize, called by caller p: the memoized construction if
\* there is one, else a new one, which is memoized.
isomorphicInitialize(p, d) ==
    IF eagerConnection # None
    THEN /\ local' = [local EXCEPT ![p] = eagerConnection]
         /\ UNCHANGED <<eagerConnection, constr, nStarted>>
    ELSE /\ nStarted' = nStarted + 1
         /\ constr' = [constr EXCEPT ![nStarted + 1] = initializeProvider(d)]
         /\ eagerConnection' = nStarted + 1
         /\ local' = [local EXCEPT ![p] = nStarted + 1]

\* The argument of the first call that obtained the promise p now holds.
NoteFirst(p, d) ==
    IF local'[p] > nStarted
    THEN [firstArg EXCEPT ![local'[p]] = d] ELSE firstArg

Settled(c) == constr[c].status \in {"resolved", "rejected"}
InFlight(c) == constr[c].status \in {"import", "probing", "init"}

\* Caller p is the one to make the next call.
Free(p) ==
    /\ pc[p] = "idle"
    /\ \A q \in Callers : q < p => pc[q] # "idle"

\* A counted call begins: the caller is idle and the budget is not spent.
Begin(p) ==
    /\ Free(p)
    /\ nCalls < MaxCalls
    /\ nCalls' = nCalls + 1

\* The call's promise settles with outcome r.
Settle(p, r) ==
    /\ pc' = [pc EXCEPT ![p] = "done"]
    /\ result' = [result EXCEPT ![p] = r]

\* The caller has observed the outcome of its call and is idle again.
Return(p) ==
    /\ pc[p] = "done"
    /\ pc' = [pc EXCEPT ![p] = "idle"]
    /\ arg' = [arg EXCEPT ![p] = Undef]
    /\ local' = [local EXCEPT ![p] = None]
    /\ err' = [err EXCEPT ![p] = "none"]
    /\ result' = [result EXCEPT ![p] = "none"]
    /\ trace' = [trace EXCEPT ![p] = <<>>]
    /\ UNCHANGED <<config, aux, eagerConnection, provider, constr, actions,
                   counters>>

\* ----------------------------------------------------------- deactivate

\* deactivate() that forgets to clear the memoized construction.
deactivate_KeepsHandle ==
    /\ constr' = IF provider # None
                 THEN [constr EXCEPT ![provider].listeners = {},
                                     ![provider].disconnected = TRUE]
                 ELSE constr
    /\ provider' = None
    /\ UNCHANGED eagerConnection
    /\ actions' = resetState(actions)

\* The body of deactivate(); it has no await, so it runs in one step.
deactivate ==
    /\ constr' = IF provider # None
                 THEN [constr EXCEPT ![provider].listeners = {},
                                     ![provider].disconnected = TRUE]
                 ELSE constr
    /\ provider' = None
    /\ eagerConnection' = None
    /\ actions' = resetState(actions)

\* deactivate() is called.  The call has no await and cannot fail: it is
\* over in this one step, whatever other calls are suspended.
Deactivate ==
    /\ deactivate
    /\ UNCHANGED <<config, aux, counters, callerVars>>

\* ------------------------------------------------------- connectEagerly

\* connectEagerly() up to its await of isomorphicInitialize().
ConnectEagerly(p) ==
    /\ Begin(p)
    /\ actions' = startActivation(actions)
    /\ isomorphicInitialize(p, Undef)
    /\ firstArg' = NoteFirst(p, Undef)
    /\ pc' = [pc EXCEPT ![p] = "ce_await"]
    /\ trace' = [trace EXCEPT ![p] = <<Ev("startActivation")>>]
    /\ UNCHANGED <<config, aux, provider, arg, err, result>>

\* The construction resolved with a Provider that has a session.
ConnectEagerlyUpdate(p) ==
    /\ pc[p] = "ce_await"
    /\ constr[local[p]].status = "resolved"
    /\ constr[local[p]].hasSession
    /\ actions' = update(actions, local[p])
    /\ trace' = [trace EXCEPT ![p] = Append(@, Ev("update"))]
    /\ Settle(p, "ok")
    /\ UNCHANGED <<config, aux, eagerConnection, provider, constr, counters, arg,
                   local, err>>

\* The construction rejected, or its Provider has no session: the catch
\* block runs deactivate() and awaits it.
ConnectEagerlyCatch(p) ==
    /\ pc[p] = "ce_await"
    /\ Settled(local[p])
    /\ ~(constr[local[p]].status = "resolved" /\ constr[local[p]].hasSession)
    /\ err' = [err EXCEPT ![p] =
                 IF constr[local[p]].status = "rejected"
                 THEN constr[local[p]].error ELSE "NoSession"]
    /\ deactivate
    /\ pc' = [pc EXCEPT ![p] = "ce_cancel"]
    /\ trace' = [trace EXCEPT ![p] = Append(@, Ev("deactivate"))]
    /\ UNCHANGED <<config, aux, counters, arg, local, result>>

\* The catch block resumes: cancelActivation(), then the error is rethrown.
ConnectEagerlyCancel(p) ==
    /\ pc[p] = "ce_cancel"
    /\ actions' = cancelActivation(actions)
    /\ trace' = [trace EXCEPT ![p] = Append(@, Ev("cancel"))]
    /\ Settle(p, err[p])
    /\ UNCHANGED <<config, aux, eagerConnection, provider, constr, counters, arg,
                   local, err>>

\* -------------------------------------------------------------- activate

\* activate(desiredChainId?) up to its await of isomorphicInitialize().
Activate(p, d) ==
    /\ Begin(p)
    /\ isomorphicInitialize(p, d)
    /\ firstArg' = NoteFirst(p, d)
    /\ pc' = [pc EXCEPT ![p] = "act_await"]
    /\ arg' = [arg EXCEPT ![p] = d]
    /\ UNCHANGED <<config, aux, provider, actions, err, result, trace>>

\* The awaited construction rejected: activate rejects with its error.
ActivateInitFailed(p) ==
    /\ pc[p] = "act_await"
    /\ constr[local[p]].status = "rejected"
    /\ Settle(p, constr[local[p]].error)
    /\ UNCHANGED <<config, aux, eagerConnection, provider, constr, actions,
                   counters, arg, local, err, trace>>

\* isConnectedToDesiredChain: some session account is `eip155:${d}:...`.
isConnectedToDesiredChain(c, d) == d \in constr[c].session.chains

\* activate without the early return on the current chain.
SessionOutcome_NoCurrentCheck(c, d) ==
    IF d = Undef \/ d = 0 THEN "ok"
    ELSE IF ~isConnectedToDesiredChain(c, d)
    THEN IF Includes(optionalChains, d)
         THEN "OptionalChainNotConnected" ELSE "UnknownChain"
    ELSE "request"

\* activate that looks the chain up in `chains` instead of `optionalChains`.
SessionOutcome_ChecksChains(c, d) ==
    IF d = Undef \/ d = 0 \/ d = constr[c].session.chainId THEN "ok"
    ELSE IF ~isConnectedToDesiredChain(c, d)
    THEN IF Includes(chains, d)
         THEN "OptionalChainNotConnected" ELSE "UnknownChain"
    ELSE "request"

\* What activate does on a Provider that has a session.
SessionOutcome(c, d) ==
    IF d = Undef \/ d = 0 \/ d = constr[c].session.chainId THEN "ok"
    ELSE IF ~isConnectedToDesiredChain(c, d)
    THEN IF Includes(optionalChains, d)
         THEN "OptionalChainNotConnected" ELSE "UnknownChain"
    ELSE "request"

\* activate that reports startActivation() before a chain-switch request.
ActivateSession_StartsActivation(p) ==
    /\ pc[p] = "act_await"
    /\ constr[local[p]].status = "resolved"
    /\ constr[local[p]].hasSession
    /\ LET out == SessionOutcome(local[p], arg[p])
       IN  IF out = "request"
           THEN /\ pc' = [pc EXCEPT ![p] = "act_request"]
                /\ actions' = startActivation(actions)
                /\ trace' = [trace EXCEPT ![p] =
                     Append(Append(@, Ev("startActivation")),
                            EvArg("wallet_switchEthereumChain",
                                  ToString16(arg[p])))]
                /\ UNCHANGED result
           ELSE /\ Settle(p, out)
                /\ UNCHANGED <<trace, actions>>
    /\ UNCHANGED <<config, aux, eagerConnection, provider, constr,
                   counters, arg, local, err>>

\* The Provider has a session: return, throw, or request a chain switch.
ActivateSession(p) ==
    /\ pc[p] = "act_await"
    /\ constr[local[p]].status = "resolved"
    /\ constr[local[p]].hasSession
    /\ LET out == SessionOutcome(local[p], arg[p])
       IN  IF out = "request"
           THEN /\ pc' = [pc EXCEPT ![p] = "act_request"]
                /\ trace' = [trace EXCEPT ![p] =
                     Append(@, EvArg("wallet_switchEthereumChain",
                                     ToString16(arg[p])))]
                /\ UNCHANGED result
           ELSE /\ Settle(p, out)
                /\ UNCHANGED trace
    /\ UNCHANGED <<config, aux, eagerConnection, provider, constr, actions,
                   counters, arg, local, err>>

\* The chain-switch request resolved: the Provider is on the new chain.
RequestResolved(p) ==
    /\ pc[p] = "act_request"
    /\ constr' = [constr EXCEPT ![local[p]].session.chainId = arg[p]]
    /\ Settle(p, "ok")
    /\ UNCHANGED <<config, aux, eagerConnection, provider, actions, counters, arg,
                   local, err, trace>>

\* A rejected chain-switch request handled as a failed enable() is.
RequestRejected_Deactivates(p) ==
    /\ pc[p] = "act_request"
    /\ deactivate
    /\ trace' = [trace EXCEPT ![p] = Append(@, Ev("deactivate"))]
    /\ Settle(p, "RequestError")
    /\ UNCHANGED <<config, aux, counters, arg, local, err>>

\* The chain-switch request rejected: activate rejects with its error.
RequestRejected(p) ==
    /\ pc[p] = "act_request"
    /\ Settle(p, "RequestError")
    /\ UNCHANGED <<config, aux, eagerConnection, provider, constr, actions,
                   counters, arg, local, err, trace>>

\* activate that calls enable() without having called startActivation().
ActivateEnable_NoStart(p) ==
    /\ pc[p] = "act_await"
    /\ constr[local[p]].status = "resolved"
    /\ ~constr[local[p]].hasSession
    /\ pc' = [pc EXCEPT ![p] = "act_enable"]
    /\ trace' = [trace EXCEPT ![p] = Append(@, Ev("enable"))]
    /\ UNCHANGED <<config, aux, eagerConnection, provider, constr, counters, arg,
                   local, err, result, actions>>

\* The Provider has no session: startActivation(), then enable() is awaited.
ActivateEnable(p) ==
    /\ pc[p] = "act_await"
    /\ constr[local[p]].status = "resolved"
    /\ ~constr[local[p]].hasSession
    /\ actions' = startActivation(actions)
    /\ pc' = [pc EXCEPT ![p] = "act_enable"]
    /\ trace' = [trace EXCEPT ![p] =
                   Append(Append(@, Ev("startActivation")), Ev("enable"))]
    /\ UNCHANGED <<config, aux, eagerConnection, provider, constr, counters, arg,
                   local, err, result>>

\* enable() resolved: the Provider has a session, which is reported.
EnableResolved(p) ==
    /\ pc[p] = "act_enable"
    /\ \E s \in SessionChoices :
         /\ constr' = [constr EXCEPT ![local[p]].hasSession = TRUE,
                                     ![local[p]].session =
                                        IF constr[local[p]].hasSession
                                        THEN @ ELSE s]
         /\ actions' = [status |-> "Activated",
                        chainId |-> constr'[local[p]].session.chainId,
                        src |-> local[p]]
    /\ trace' = [trace EXCEPT ![p] = Append(@, Ev("update"))]
    /\ Settle(p, "ok")
    /\ UNCHANGED <<config, aux, eagerConnection, provider, counters, arg, local,
                   err>>

\* enable() rejected: the catch block runs deactivate() and awaits it.
EnableRejected(p) ==
    /\ pc[p] = "act_enable"
    /\ err' = [err EXCEPT ![p] = "EnableError"]
    /\ deactivate
    /\ pc' = [pc EXCEPT ![p] = "act_cancel"]
    /\ trace' = [trace EXCEPT ![p] = Append(@, Ev("deactivate"))]
    /\ UNCHANGED <<config, aux, counters, arg, local, result>>

\* The catch block resumes: cancelActivation(), then the error is rethrown.
ActivateCancel(p) ==
    /\ pc[p] = "act_cancel"
    /\ actions' = cancelActivation(actions)
    /\ trace' = [trace EXCEPT ![p] = Append(@, Ev("cancel"))]
    /\ Settle(p, err[p])
    /\ UNCHANGED <<config, aux, eagerConnection, provider, constr, counters, arg,
                   local, err>>

\* ------------------------------------- functions applied on their own

lifecycle == <<eagerConnection, provider, constr, counters, callerVars>>

\* The chain lists of the options: up to MaxLen distinct ids, 0 among them.
PureIds == 0..MaxLen
ChainLists ==
    {s \in UNION {[1..n -> PureIds] : n \in 0..MaxLen} :
        \A i, j \in 1..Len(s) : s[i] = s[j] => i = j}
PureDesired == {Undef} \cup PureIds

InitPure ==
    /\ chains \in ChainLists
    /\ optionalChains \in ChainLists
    /\ defaultChainId \in {Undef, 1}
    /\ hasRpcMap = FALSE
    /\ Fresh
    /\ NoPure
    /\ NoUrls

\* getChainProps(d) on the connector's options.
ApplyGetChainProps(d) ==
    /\ fn = "none"
    /\ fn' = "getChainProps"
    /\ inp' = [NoInput EXCEPT !.d = d]
    /\ outp' = getChainProps(d)
    /\ UNCHANGED <<config, urlVars, onErrors, lifecycle, actions>>

\* reorderChainsBasedOnId(options.chains, d)
ApplyReorder(d) ==
    /\ fn = "none"
    /\ fn' = "reorder"
    /\ inp' = [NoInput EXCEPT !.d = d]
    /\ outp' = [ok |-> TRUE, chains |-> reorderChainsBasedOnId(chains, d),
                optionalChains |-> <<>>]
    /\ UNCHANGED <<config, urlVars, onErrors, lifecycle, actions>>

chainChangedListener_Radix10(a, chainId) ==
    updateChainId(a, ParseInt(chainId, 10))

\* chainChangedListener(chainId)
chainChangedListener(a, chainId) ==
    updateChainId(a, ParseInt(chainId, 16))

\* The Provider emits chainChanged for chain n, in either encoding.
ChainChanged(n, hex) ==
    /\ fn = "none"
    /\ fn' = "chainChanged"
    /\ inp' = [NoInput EXCEPT !.n = n, !.hex = hex]
    /\ outp' = NoProps
    /\ actions' = chainChangedListener(actions, Payload(n, hex))
    /\ UNCHANGED <<config, urlVars, onErrors, lifecycle>>

\* ---------------------------------------------------- Provider events

disconnectListener_AlwaysReports(a, error) ==
    [actions |-> resetState(a), onErrors |-> onErrors + 1]

\* disconnectListener(error): resetState(), then onError when there is an
\* error.
disconnectListener(a, error) ==
    [actions |-> resetState(a),
     onErrors |-> IF error THEN onErrors + 1 ELSE onErrors]

\* Provider c loses its session and emits disconnect, with an error payload
\* or without, to the listener attached to it.
Disconnect(c, error) ==
    /\ constr[c].status = "resolved"
    /\ constr[c].hasSession
    /\ "disconnect" \in constr[c].listeners
    /\ onErrors < MaxErrors
    /\ constr' = [constr EXCEPT ![c].hasSession = FALSE,
                                ![c].session = NoSession]
    /\ actions' = disconnectListener(actions, error).actions
    /\ onErrors' = disconnectListener(actions, error).onErrors
    /\ fn' = "disconnect"
    /\ inp' = [NoInput EXCEPT !.error = error]
    /\ UNCHANGED <<config, outp, urlVars, eagerConnection, provider, counters,
                   callerVars>>

\* ------------------------------------------ getBestUrlMap (utils.ts)

\* The chains of the rpcMap, each with 1..MaxUrls candidate URLs, numbered
\* in their original order.
UrlChains == {1, 2}
UrlIds == 1..MaxUrls

InitUrl ==
    /\ chains = <<1, 2>>
    /\ optionalChains = <<>>
    /\ defaultChainId = Undef
    /\ hasRpcMap = TRUE
    /\ Fresh
    /\ NoPure
    /\ cands \in [UrlChains -> UrlIds]
    /\ probe = [k \in UrlChains |-> [i \in UrlIds |-> "none"]]
    /\ timedOut = [k \in UrlChains |-> FALSE]
    /\ selected = [k \in UrlChains |-> 0]

\* getBestUrlMap(rpcMap, timeout) is called: a single candidate is selected
\* without a probe, several candidates are all probed at once.
SelectStart ==
    /\ fn = "none"
    /\ fn' = "getBestUrlMap"
    /\ selected' = [k \in UrlChains |-> IF cands[k] = 1 THEN 1 ELSE 0]
    /\ probe' = [k \in UrlChains |-> [i \in UrlIds |->
                   IF cands[k] > 1 /\ i <= cands[k] THEN "pending" ELSE "none"]]
    /\ UNCHANGED <<config, inp, outp, cands, timedOut, onErrors, lifecycle,
                   actions>>

ProbeSucceeds_LateWins(k, i) ==
    /\ probe[k][i] = "pending"
    /\ probe' = [probe EXCEPT ![k][i] = "ok"]
    /\ selected' = [selected EXCEPT ![k] = i]
    /\ UNCHANGED <<config, pureVars, cands, timedOut, onErrors, lifecycle,
                   actions>>

\* A probe answers: the first to succeed before the timeout is selected, a
\* later one is discarded.
ProbeSucceeds(k, i) ==
    /\ probe[k][i] = "pending"
    /\ probe' = [probe EXCEPT ![k][i] = "ok"]
    /\ selected' = IF selected[k] = 0 THEN [selected EXCEPT ![k] = i]
                   ELSE selected
    /\ UNCHANGED <<config, pureVars, cands, timedOut, onErrors, lifecycle,
                   actions>>

\* A probe fails: the failure is swallowed.
ProbeFails(k, i) ==
    /\ probe[k][i] = "pending"
    /\ probe' = [probe EXCEPT ![k][i] = "failed"]
    /\ UNCHANGED <<config, pureVars, cands, timedOut, selected, onErrors,
                   lifecycle, actions>>

\* The timeout of a chain's race passes: with no success so far the first
\* candidate is selected.
Timeout(k) ==
    /\ fn = "getBestUrlMap"
    /\ cands[k] > 1
    /\ ~timedOut[k]
    /\ timedOut' = [timedOut EXCEPT ![k] = TRUE]
    /\ selected' = IF selected[k] = 0 THEN [selected EXCEPT ![k] = 1]
                   ELSE selected
    /\ UNCHANGED <<config, pureVars, cands, probe, onErrors, lifecycle,
                   actions>>

NextUrl ==
    \/ SelectStart
    \/ \E k \in UrlChains, i \in UrlIds : ProbeSucceeds(k, i)
    \/ \E k \in UrlChains, i \in UrlIds : ProbeFails(k, i)
    \/ \E k \in UrlChains : Timeout(k)

SpecUrl == InitUrl /\ [][NextUrl]_vars

\* ------------------------------------------------------- specification

Next ==
    \/ \E c \in ConstrIds : ImportDone(c)
    \/ \E c \in ConstrIds : ProbeDone(c)
    \/ \E c \in ConstrIds : InitResolved(c)
    \/ \E c \in ConstrIds : InitRejected(c)
    \/ Deactivate
    \/ \E p \in Callers : ConnectEagerly(p)
    \/ \E p \in Callers : ConnectEagerlyUpdate(p)
    \/ \E p \in Callers : ConnectEagerlyCatch(p)
    \/ \E p \in Callers : ConnectEagerlyCancel(p)
    \/ \E p \in Callers, d \in DesiredIds : Activate(p, d)
    \/ \E p \in Callers : ActivateInitFailed(p)
    \/ \E p \in Callers : ActivateSession(p)
    \/ \E p \in Callers : RequestResolved(p)
    \/ \E p \in Callers : RequestRejected(p)
    \/ \E p \in Callers : ActivateEnable(p)
    \/ \E p \in Callers : EnableResolved(p)
    \/ \E p \in Callers : EnableRejected(p)
    \/ \E p \in Callers : ActivateCancel(p)
    \/ \E p \in Callers : Return(p)

Spec == Init /\ [][Next]_vars

\* The connector with the chain lists, default chain and rpcMap of the first
\* configuration.
InitEvents ==
    /\ chains = <<1, 2>>
    /\ optionalChains = <<3>>
    /\ defaultChainId = Undef
    /\ hasRpcMap = TRUE
    /\ Fresh
    /\ NoPure
    /\ NoUrls

\* The calls of one caller, one after the other, deactivate() at any time,
\* and the disconnect events of the Providers.
NextEvents ==
    \/ \E c \in ConstrIds : ImportDone(c)
    \/ \E c \in ConstrIds : ProbeDone(c)
    \/ \E c \in ConstrIds : InitResolved(c)
    \/ \E c \in ConstrIds : InitRejected(c)
    \/ Deactivate
    \/ ConnectEagerly(1)
    \/ ConnectEagerlyUpdate(1)
    \/ ConnectEagerlyCatch(1)
    \/ ConnectEagerlyCancel(1)
    \/ \E d \in DesiredIds : Activate(1, d)
    \/ ActivateInitFailed(1)
    \/ ActivateSession(1)
    \/ RequestResolved(1)
    \/ RequestRejected(1)
    \/ ActivateEnable(1)
    \/ EnableResolved(1)
    \/ EnableRejected(1)
    \/ ActivateCancel(1)
    \/ Return(1)
    \/ \E c \in ConstrIds, error \in BOOLEAN : Disconnect(c, error)

SpecEvents == InitEvents /\ [][NextEvents]_vars

NextPure ==
    \/ \E d \in PureDesired : ApplyGetChainProps(d)
    \/ \E d \in PureDesired : ApplyReorder(d)
    \/ \E n \in 0..MaxChainId, hex \in BOOLEAN : ChainChanged(n, hex)

SpecPure == InitPure /\ [][NextPure]_vars

\* --------------------------------------------------------------- claims

\* Kinds of step, told by what they change.
Calls(p) == pc[p] = "idle" /\ pc'[p] \in {"ce_await", "act_await"}
Settles(p) == pc[p] # "done" /\ pc'[p] = "done"
\* A step of no suspended call and not of the Provider: a deactivate() call.
DeactivateStep ==
    /\ UNCHANGED callerVars
    /\ \A c \in ConstrIds : constr'[c].status = constr[c].status
\* A step in which the body of deactivate() runs, called or from a catch.
RunsDeactivate ==
    \/ DeactivateStep
    \/ \E p \in Callers : /\ pc[p] \in {"ce_await", "act_enable"}
                          /\ pc'[p] \in {"ce_cancel", "act_cancel"}

SeqToSet(s) == {s[i] : i \in 1..Len(s)}
\* The list s with d moved to the front, when d is given and in s.
Front(s, d) ==
    IF d \in SeqToSet(s)
    THEN <<d>> \o SelectSeq(s, LAMBDA x : x # d) ELSE s
\* The number a sequence of hexadecimal digits writes.
RECURSIVE HexValue(_)
HexValue(s) ==
    IF s = <<>> THEN 0 ELSE 16 * HexValue(SubSeq(s, 1, Len(s) - 1)) + s[Len(s)]

\* C1: in every reachable state at most one Provider construction
\* (initializeProvider) is in flight, whatever the interleaving of
\* connectEagerly(), activate() and deactivate().
C1_AtMostOneInFlight ==
    Cardinality({c \in ConstrIds : InFlight(c)}) <= 1

\* C2: no Provider is discarded (no longer the memoized construction) while
\* it still carries the connector's listeners or without disconnect() having
\* been called on it.
C2_DiscardedProviderDetached ==
    \A c \in ConstrIds :
        (constr[c].status = "resolved" /\ eagerConnection # c)
            => (constr[c].listeners = {} /\ constr[c].disconnected)

\* C3: while the memoized construction is set, a call of connectEagerly() or
\* activate(d) starts no construction and awaits the memoized one; only a
\* run of deactivate() clears the handle; and the chain props a construction
\* passes to init are ordered by the argument of the call that began it (or
\* by defaultChainId).
C3_SingleFlight ==
    [][ /\ \A p \in Callers :
             (Calls(p) /\ eagerConnection # None)
                => /\ nStarted' = nStarted
                   /\ eagerConnection' = eagerConnection
                   /\ local'[p] = eagerConnection
                   /\ constr' = constr
        /\ (eagerConnection # None /\ eagerConnection' # eagerConnection)
                => (eagerConnection' = None /\ RunsDeactivate)
        /\ \A c \in ConstrIds :
             constr'[c].status \in {"init", "resolved"}
                => LET d == IF firstArg'[c] = Undef
                            THEN defaultChainId ELSE firstArg'[c]
                   IN  /\ constr'[c].props.chains = Front(chains, d)
                       /\ constr'[c].props.optionalChains =
                              Front(optionalChains, d)
      ]_vars

\* C3 witness: a second call, with another desiredChainId, has joined the
\* construction begun by activate(2), whose Provider was built with chain 2
\* first.
C3_Witness ==
    /\ nStarted = 1 /\ eagerConnection = 1 /\ firstArg[1] = 2
    /\ constr[1].status = "resolved" /\ constr[1].props.chains = <<2, 1>>
    /\ \E p \in Callers : pc[p] = "act_await" /\ arg[p] = 3 /\ local[p] = 1

\* C4: when connectEagerly() obtains a Provider without a session, the step
\* that catches the error clears the memoized handle and resets Actions
\* before anything is surfaced, and the call rejects with the no-session
\* error only from the later step that called the cancel function: the call
\* did startActivation, deactivate, cancel, in that order.
C4_EagerNoSession ==
    [][ \A p \in Callers :
          /\ (pc[p] = "ce_await" /\ pc'[p] # "ce_await"
                /\ constr[local[p]].status = "resolved"
                /\ ~constr[local[p]].hasSession)
                => /\ pc'[p] = "ce_cancel" /\ err'[p] = "NoSession"
                   /\ result'[p] = "none"
                   /\ eagerConnection' = None
                   /\ actions' = IdleState
          /\ (Settles(p) /\ result'[p] = "NoSession")
                => /\ pc[p] = "ce_cancel"
                   /\ trace'[p] = <<Ev("startActivation"), Ev("deactivate"),
                                    Ev("cancel")>>
      ]_vars

\* C4 witness: a connectEagerly() has rejected with the no-session error.
C4_Witness ==
    \E p \in Callers :
        /\ pc[p] = "done" /\ result[p] = "NoSession"
        /\ constr[local[p]].status = "resolved"
        /\ eagerConnection = None /\ actions = IdleState

\* C5: when enable() fails in activate(), the catching step clears the
\* handle and resets Actions, the cancel function is called next, and only
\* then the call rejects with enable's error; that step leaves Actions Idle
\* and the handle absent (they are Idle and absent when no other call ran),
\* and an activate() called with the handle absent starts a construction.
C5_EnableFailure ==
    [][ \A p \in Callers :
          /\ (pc[p] = "act_enable" /\ pc'[p] = "act_cancel")
                => /\ err'[p] = "EnableError" /\ result'[p] = "none"
                   /\ eagerConnection' = None
                   /\ actions' = IdleState
          /\ (Settles(p) /\ result'[p] = "EnableError")
                => /\ pc[p] = "act_cancel"
                   /\ trace'[p] = <<Ev("startActivation"), Ev("enable"),
                                    Ev("deactivate"), Ev("cancel")>>
                   /\ actions.status = "Idle" => actions'.status = "Idle"
                   /\ eagerConnection = None => eagerConnection' = None
                   /\ nCalls = 1
                        => (actions' = IdleState /\ eagerConnection' = None)
          /\ (pc[p] = "idle" /\ pc'[p] = "act_await" /\ eagerConnection = None)
                => /\ nStarted' = nStarted + 1
                   /\ eagerConnection' = nStarted'
                   /\ local'[p] = nStarted'
                   /\ constr'[nStarted'].status = "import"
      ]_vars

\* C5 witness: an activate() has rejected with enable's error, the connector
\* is Idle, and a later activate() has started the second construction.
C5_Witness ==
    \E p, q \in Callers :
        /\ pc[p] = "done" /\ result[p] = "EnableError" /\ local[p] = 1
        /\ pc[q] = "act_await" /\ local[q] = 2 /\ eagerConnection = 2
        /\ InFlight(2) /\ actions = IdleState

\* C6: when activate() fails because the construction failed, the failed
\* construction is not left in the memoized handle.
C6_FailedConstructionNotRetained ==
    [][ \A p \in Callers :
          (pc[p] = "act_await" /\ Settles(p)
             /\ result'[p] \in {"ConfigError", "InitError"})
             => eagerConnection' # local[p]
      ]_vars

\* C7: activate(d) on a Provider with a session requests a chain switch, with
\* d in hexadecimal, exactly when d is given, differs from the current chain
\* and a session account is on chain d; when d is absent or the current
\* chain, it returns successfully with no request, no startActivation and no
\* change of Actions.
C7_ChainSwitchIff ==
    [][ \A p \in Callers :
          (pc[p] = "act_await" /\ pc'[p] # "act_await"
             /\ constr[local[p]].status = "resolved"
             /\ constr[local[p]].hasSession)
             => LET d == arg[p]
                    s == constr[local[p]].session
                IN  /\ (pc'[p] = "act_request")
                          <=> (d # Undef /\ d # s.chainId /\ d \in s.chains)
                    /\ (pc'[p] = "act_request")
                          => /\ Len(trace'[p]) = 1
                             /\ trace'[p][1].op = "wallet_switchEthereumChain"
                             /\ HexValue(trace'[p][1].arg) = d
                    /\ (d = Undef \/ d = s.chainId)
                          => /\ pc'[p] = "done" /\ result'[p] = "ok"
                             /\ trace'[p] = <<>>
                             /\ actions' = actions
      ]_vars

\* C7 witness: after a chain switch to chain 2, an activate(2) has returned
\* successfully without having done anything.
C7_Witness ==
    \E p \in Callers :
        /\ pc[p] = "done" /\ result[p] = "ok" /\ arg[p] = 2
        /\ trace[p] = <<>>
        /\ constr[local[p]].hasSession
        /\ constr[local[p]].session.chainId = 2

C9_UnknownChainIsUnconfigured ==
    \A p \in Callers :
        (pc[p] = "done" /\ result[p] = "UnknownChain")
            => (arg[p] \notin SeqToSet(chains)
                /\ arg[p] \notin SeqToSet(optionalChains))

\* C10: deactivate() can be called in every state and never fails; each call
\* leaves the memoized handle absent, the provider reference absent and
\* Actions reset, and disturbs no suspended call; called when handle and
\* provider are already absent it changes nothing but Actions.
C10_DeactivateIdempotent ==
    /\ [](ENABLED Deactivate)
    /\ [][ DeactivateStep
             => /\ eagerConnection' = None
                /\ provider' = None
                /\ actions' = IdleState
                /\ (eagerConnection = None /\ provider = None)
                      => UNCHANGED <<config, aux, eagerConnection, provider,
                                     constr, counters, callerVars>>
         ]_vars

\* C10 witness: deactivate() was called while the only construction was
\* still in flight: the handle is absent and the connector Idle.
C10_Witness ==
    /\ nStarted = 1 /\ InFlight(1)
    /\ eagerConnection = None /\ provider = None /\ actions = IdleState

\* C11: a successful activation reports to Actions in order.
\* connectEagerly() calls startActivation() in the step that begins (or
\* joins) the construction, before any step of the construction, and once
\* the Provider has a session calls update once with the Provider's chainId;
\* activate() without a session calls startActivation() only once the
\* construction is resolved, then enable(), then update once with the
\* Provider's chainId.  Neither calls the cancel function, and no step of
\* the call touches the memoized handle after the call began.
C11_SuccessOrder ==
    [][ \A p \in Callers :
          /\ (Calls(p) /\ pc'[p] = "ce_await")
                => /\ actions'.status = "Activating"
                   /\ trace'[p] = <<Ev("startActivation")>>
                   /\ nStarted' > nStarted
                        => constr'[nStarted'].status = "import"
          /\ (pc[p] = "ce_await" /\ Settles(p) /\ result'[p] = "ok")
                => /\ constr[local[p]].hasSession
                   /\ trace'[p] = <<Ev("startActivation"), Ev("update")>>
                   /\ actions' = [status |-> "Activated",
                                  chainId |-> constr[local[p]].session.chainId,
                                  src |-> local[p]]
                   /\ eagerConnection' = eagerConnection
          /\ (Calls(p) /\ pc'[p] = "act_await")
                => (actions' = actions /\ trace'[p] = <<>>)
          /\ (pc[p] = "act_await" /\ pc'[p] = "act_enable")
                => /\ constr[local[p]].status = "resolved"
                   /\ actions'.status = "Activating"
                   /\ trace'[p] = <<Ev("startActivation"), Ev("enable")>>
                   /\ eagerConnection' = eagerConnection
          /\ (pc[p] = "act_enable" /\ Settles(p) /\ result'[p] = "ok")
                => /\ trace'[p] = <<Ev("startActivation"), Ev("enable"),
                                    Ev("update")>>
                   /\ actions' = [status |-> "Activated",
                                  chainId |->
                                      constr'[local[p]].session.chainId,
                                  src |-> local[p]]
                   /\ eagerConnection' = eagerConnection
      ]_vars

\* C11 witness: an activate() that had to enable() and a connectEagerly()
\* that found the session have both succeeded on the memoized Provider.
C11_Witness ==
    \E p, q \in Callers :
        /\ pc[p] = "done" /\ result[p] = "ok"
        /\ trace[p] = <<Ev("startActivation"), Ev("enable"), Ev("update")>>
        /\ pc[q] = "done" /\ result[q] = "ok"
        /\ trace[q] = <<Ev("startActivation"), Ev("update")>>
        /\ eagerConnection = local[p] /\ local[q] = local[p]
        /\ actions.status = "Activated" /\ actions.src = local[p]

\* C12 (as claimed): when activate(d) issues a chain-switch request on a
\* connected Provider, startActivation() is reported to Actions before the
\* request.
C12_SwitchThroughActivating ==
    [][ \A p \in Callers :
          (pc[p] = "act_await" /\ pc'[p] = "act_request")
             => /\ actions'.status = "Activating"
                /\ Len(trace'[p]) = 2
                /\ trace'[p][1] = Ev("startActivation")
      ]_vars

\* C12 (amended): a chain switch on an existing session does not pass
\* through Activating: the step that issues the request calls nothing on
\* Actions (the request is all the call does), and the steps in which the
\* request resolves or rejects leave Actions as it was.
C12_SwitchKeepsActions ==
    [][ \A p \in Callers :
          /\ (pc[p] = "act_await" /\ pc'[p] = "act_request")
                => /\ actions' = actions
                   /\ Len(trace'[p]) = 1
                   /\ trace'[p][1].op = "wallet_switchEthereumChain"
          /\ (pc[p] = "act_request" /\ Settles(p))
                => (actions' = actions /\ trace'[p] = trace[p])
      ]_vars

\* C12 witness: a chain switch is requested while Actions holds the
\* connection reported from the same Provider.
C12_Witness ==
    \E p \in Callers :
        /\ pc[p] = "act_request"
        /\ actions.status = "Activated" /\ actions.src = local[p]

\* C13: a construction that fails with the configuration error (both chain
\* lists empty) has started neither an endpoint probe (getBestUrlMap) nor
\* the Provider's init before the error is raised.
C13_ConfigErrorBeforeNetwork ==
    \A c \in ConstrIds :
        /\ (constr[c].status = "rejected" /\ constr[c].error = "ConfigError")
              => ~constr[c].probed
        /\ (~isArrayOneOrMore(chains) /\ ~isArrayOneOrMore(optionalChains))
              => constr[c].status \notin {"probing", "init", "resolved"}

\* The lists getChainProps validates: the options' lists as reordered.
Required == reorderChainsBasedOnId(chains, OrDefault(inp.d))
Optional == reorderChainsBasedOnId(optionalChains, OrDefault(inp.d))

\* C14 as stated: the validated chain props are {required, optional}
\* unchanged when required is non-empty, the two lists swapped (the non-empty
\* optional list becoming the required one) when only optional is non-empty,
\* and a configuration error when both are empty.
C14_ValidateSwaps ==
    fn = "getChainProps" =>
        IF isArrayOneOrMore(Required)
        THEN outp = [ok |-> TRUE, chains |-> Required,
                     optionalChains |-> Optional]
        ELSE IF isArrayOneOrMore(Optional)
        THEN outp = [ok |-> TRUE, chains |-> Optional,
                     optionalChains |-> Required]
        ELSE ~outp.ok

\* C14 amended: validation fails exactly when both lists are empty, and
\* otherwise returns the two lists in their own roles, never swapped: a
\* non-empty optional list stays the optional list beside an empty required
\* list.
C14_ValidateKeepsRoles ==
    fn = "getChainProps" =>
        /\ outp.ok <=> (isArrayOneOrMore(Required) \/ isArrayOneOrMore(Optional))
        /\ outp.ok => /\ outp.chains = Required
                      /\ outp.optionalChains = Optional

C14_Witness ==
    /\ fn = "getChainProps"
    /\ chains = <<>>
    /\ Len(optionalChains) = 2
    /\ outp.ok
    /\ outp.chains = <<>>
    /\ outp.optionalChains # <<>>

\* C15: for every chain list L and desired chain id d, 0 included, reordering
\* gives d first and then the other elements of L in their order when d is
\* in L, and L unchanged when d is absent or not in L.
C15_ReorderReference ==
    fn = "reorder" => outp.chains = Front(chains, inp.d)

\* C17 as stated: for every chain id n and both encodings of the payload,
\* hexadecimal and decimal, Actions receives chainId = n.
C17_BothEncodings ==
    fn = "chainChanged" => actions.chainId = inp.n

\* C17 amended: a hexadecimal payload reports chainId = n for every n; a
\* decimal payload is read as hexadecimal too, and reports n only when n is
\* below 10.
C17_HexPayload ==
    fn = "chainChanged" =>
        /\ (inp.hex \/ inp.n < 10) => actions.chainId = inp.n
        /\ (~inp.hex /\ inp.n >= 10) =>
               actions.chainId = DigitsValue(ToString10(inp.n), 16)

C17_Witness ==
    /\ fn = "chainChanged"
    /\ inp.hex
    /\ inp.n >= 16
    /\ actions.chainId = inp.n

\* C16: for a chain with several candidate URLs the selected URL is that of
\* the first probe to succeed within the timeout, and the first candidate
\* when the timeout passes with no success; failed probes never fail or make
\* the selection, a selection once made stays, and the selected URL is always
\* one of the chain's candidates, one per chain.
C16_EndpointSelection ==
    [][\A k \in UrlChains :
          /\ selected'[k] \in 0..cands[k]
          /\ selected[k] # 0 => selected'[k] = selected[k]
          /\ (selected[k] = 0 /\ selected'[k] # 0) =>
                \/ cands[k] = 1 /\ selected'[k] = 1 /\ fn = "none"
                \/ /\ cands[k] > 1 /\ ~timedOut'[k]
                   /\ probe[k][selected'[k]] = "pending"
                   /\ probe'[k][selected'[k]] = "ok"
                   /\ \A j \in UrlIds : probe[k][j] # "ok"
                \/ /\ cands[k] > 1 /\ ~timedOut[k] /\ timedOut'[k]
                   /\ selected'[k] = 1
                   /\ \A j \in UrlIds : probe[k][j] # "ok"
          /\ (\E j \in UrlIds : probe[k][j] # "failed" /\ probe'[k][j] = "failed")
                => selected'[k] = selected[k]
          /\ timedOut'[k] => selected'[k] # 0]_vars

\* The slow first candidate of chain 1 has not answered and the second was
\* selected; every probe of chain 2 failed and its first candidate was
\* selected at the timeout.
C16_Witness ==
    /\ cands[1] > 1 /\ probe[1][1] = "pending" /\ selected[1] = 2
    /\ ~timedOut[1]
    /\ cands[2] > 1 /\ timedOut[2] /\ selected[2] = 1
    /\ \A i \in 1..cands[2] : probe[2][i] = "failed"

\* A step in which a Provider emits disconnect: it loses its session.
DisconnectStep ==
    \E c \in ConstrIds : constr[c].hasSession /\ ~constr'[c].hasSession

\* C18: onError is invoked only by a disconnect event that carries an error,
\* exactly once for it and with Actions reset; a disconnect without an error
\* resets Actions and does not invoke onError; no step of connectEagerly(),
\* activate() or deactivate(), failing or not, invokes it.
C18_OnErrorOnlyFromDisconnect ==
    [][/\ DisconnectStep =>
            /\ actions' = IdleState
            /\ fn' = "disconnect"
            /\ onErrors' = IF inp'.error THEN onErrors + 1 ELSE onErrors
       /\ ~DisconnectStep => onErrors' = onErrors]_vars

\* A failed connectEagerly() or activate() has settled, and later a Provider
\* disconnected with an error: onError was invoked for the event alone.
C18_Witness ==
    /\ fn = "disconnect"
    /\ inp.error
    /\ onErrors = 1
    /\ actions = IdleState
    /\ \E p \in Callers :
          result[p] \in {"NoSession", "InitError", "EnableError", "RequestError",
                         "UnknownChain", "OptionalChainNotConnected"}

\* C19: whenever Actions holds an update read from a Provider P (no reset
\* since), the memoized construction handle is set and resolves to P.
C19_ReportedProviderIsHeld ==
    actions.src # None =>
        /\ eagerConnection = actions.src
        /\ constr[actions.src].status = "resolved"

\* The ways activate(d) fails on a Provider that has a session.
SessionFailures == {"OptionalChainNotConnected", "UnknownChain", "RequestError"}
\* What a call did to Actions or to the connector, by its trace.
Touched(p) ==
    \E i \in 1..Len(trace[p]) :
        trace[p][i].op \in {"startActivation", "update", "deactivate",
                            "cancelActivation"}

\* C20: an activate(d) that fails on a Provider with an existing session
\* leaves the connector as it was: the steps of the call (the check of the
\* session, the chain-switch request, its rejection) keep the memoized
\* handle, the Provider and its listeners and the state of Actions, and the
\* call has run neither deactivate() nor startActivation, update or
\* resetState.
C20_SessionFailureFrame ==
    [][\A p \in Callers :
          /\ (\/ pc[p] = "act_await" /\ pc'[p] = "act_request"
              \/ Settles(p) /\ result'[p] \in SessionFailures)
                => UNCHANGED <<eagerConnection, provider, constr, actions>>
          /\ (pc'[p] = "done" /\ result'[p] \in SessionFailures)
                => ~Touched(p)']_vars

\* A rejected chain-switch request on the Provider the connector holds,
\* with Actions still Activated and the listeners attached.
C20_Witness ==
    \E p \in Callers :
        /\ pc[p] = "done"
        /\ result[p] = "RequestError"
        /\ eagerConnection = local[p]
        /\ constr[local[p]].listeners = Listeners
        /\ actions.status = "Activated"

====
